---- MODULE Spec2Model ----
(***************************************************************************)
(* Model of air_pollution.py: a Streamlit script that is re-executed from  *)
(* top to bottom on every user interaction (a "render").  The only state   *)
(* that survives a render is st.session_state.chat_history and the process *)
(* environment; every other name is rebound in a fresh namespace.          *)
(*                                                                         *)
(* Concentrations are fixed-point numbers in tenths of a ug/m3 (120 is     *)
(* 12.0); a mean is the exact rational [n |-> sum, d |-> count].  A JSON   *)
(* value is Null or Num(v).                                                *)
(* Text typed by the user or returned by the LLM is a sequence of          *)
(* one-character strings so that str.strip() can be computed; Str turns it *)
(* into a string.                                                          *)
(***************************************************************************)
EXTENDS Integers, Sequences, FiniteSets, TLC

\* ------------------------------------------------------------------ bounds
MaxSubmits == 2      \* chat submissions per session explored
MaxRows    == 3      \* rows of a measurement table given to the summarizer
PmBelow    == 30     \* PM2.5 numerators given to the bander start at -PmBelow
PmHigh     == 5100   \* highest PM2.5 numerator given to the bander
MaxDen     == 2      \* largest denominator of a PM2.5 mean given to the bander

\* --------------------------------------------------------- text primitives
NaN     == [n |-> 0, d |-> 0]   \* pd.isna: None or float NaN (the mean of no value)
Null    == << >>        \* a JSON null passed through by item.get("value")
Num(v)  == << v >>      \* a JSON number, in tenths
EmptyDF == << >>        \* pd.DataFrame()

IsSpace(c) == c \in {" ", "\t", "\n"}

\* ------------------------------------------------------------------------
\* A definition whose name ends in _mut is a faulty variant of the definition that
\* follows it: the fault a slip in that line of the script would introduce.
\* ------------------------------------------------------------------------
RECURSIVE LStrip(_)
LStrip(s) == IF s = << >> THEN << >>
             ELSE IF IsSpace(Head(s)) THEN LStrip(Tail(s)) ELSE s

RECURSIVE RStrip(_)
RStrip(s) == IF s = << >> THEN << >>
             ELSE IF IsSpace(s[Len(s)]) THEN RStrip(SubSeq(s, 1, Len(s) - 1)) ELSE s

\* str.strip()
Strip(s) == RStrip(LStrip(s))

\* the Python string made of the characters of s
RECURSIVE Str(_)
Str(s) == IF s = << >> THEN "" ELSE Head(s) \o Str(Tail(s))

\* sep.join(parts)
RECURSIVE Join(_, _)
Join(parts, sep) ==
    IF parts = << >> THEN ""
    ELSE IF Len(parts) = 1 THEN parts[1]
    ELSE parts[1] \o sep \o Join(Tail(parts), sep)

\* f"{x:.1f}" of the rational n/d tenths: nearest tenth, ties to even.  (A float
\* that prints as a tie is rounded by its binary value; the means of the values
\* used below are never ties.)
Fmt1(n, d) ==
    LET q == n \div d
        r == n % d
        t == IF 2 * r > d THEN q + 1
             ELSE IF 2 * r = d /\ q % 2 = 1 THEN q + 1
             ELSE q
        a == IF t < 0 THEN -t ELSE t
    IN  (IF n < 0 THEN "-" ELSE "") \o ToString(a \div 10) \o "." \o ToString(a % 10)

\* ------------------------------------------------------------- AQI bander
Unknown   == "Unknown"
Good      == "Good"
Moderate  == "Moderate"
USG       == "Unhealthy for Sensitive Groups"
Unhealthy == "Unhealthy"
VeryUnhealthy == "Very Unhealthy"
Hazardous == "Hazardous"

\* pm25 <= c, where c is in tenths
Le(pm25, c) == pm25.n <= c * pm25.d

\* fault: the first threshold is exclusive
indicative_aqi_mut(pm25) ==
    IF pm25 = NaN THEN Unknown
    ELSE IF pm25.n < 120 * pm25.d THEN Good
    ELSE IF Le(pm25, 354) THEN Moderate
    ELSE IF Le(pm25, 554) THEN USG
    ELSE IF Le(pm25, 1504) THEN Unhealthy
    ELSE IF Le(pm25, 2504) THEN VeryUnhealthy
    ELSE Hazardous

indicative_aqi(pm25) ==
    IF pm25 = NaN THEN Unknown
    ELSE IF Le(pm25, 120) THEN Good
    ELSE IF Le(pm25, 354) THEN Moderate
    ELSE IF Le(pm25, 554) THEN USG
    ELSE IF Le(pm25, 1504) THEN Unhealthy
    ELSE IF Le(pm25, 2504) THEN VeryUnhealthy
    ELSE Hazardous

\* ------------------------------------------------------ context summarizer
NoData  == "No recent measurements found."
Tracked == <<"pm25", "pm10", "no2", "o3", "so2">>

\* k.upper()
Upper(k) == CASE k = "pm25" -> "PM25" [] k = "pm10" -> "PM10" [] k = "no2" -> "NO2"
              [] k = "o3" -> "O3" [] k = "so2" -> "SO2" [] OTHER -> k

\* the non-null values of the rows of df at timestamp t for pollutant p
RECURSIVE GroupSum(_, _, _)
GroupSum(df, t, p) ==
    IF df = << >> THEN 0
    ELSE (IF Head(df).datetime = t /\ Head(df).parameter = p /\ Head(df).value # Null
          THEN Head(df).value[1] ELSE 0) + GroupSum(Tail(df), t, p)

GroupCount(df, t, p) ==
    Cardinality({i \in 1..Len(df) :
        df[i].datetime = t /\ df[i].parameter = p /\ df[i].value # Null})

\* pivot_table(index="datetime", columns="parameter", values="value", aggfunc="mean"):
\* a (datetime, parameter) group whose mean is NaN is dropped before unstacking, so
\* the index holds the timestamps that have at least one non-null reading
PivotIndex(df) == {df[i].datetime : i \in {j \in 1..Len(df) : df[j].value # Null}}

PivotCell(df, t, p) ==
    IF GroupCount(df, t, p) = 0 THEN NaN
    ELSE [n |-> GroupSum(df, t, p), d |-> GroupCount(df, t, p)]

\* fault: .head(1), the chronologically first index entry
Latest_mut(df) == CHOOSE t \in PivotIndex(df) : \A u \in PivotIndex(df) : t <= u

\* .sort_index() then .tail(1): the chronologically last index entry
Latest(df) == CHOOSE t \in PivotIndex(df) : \A u \in PivotIndex(df) : u <= t

\* latest_vals.get(k); a missing key and a NaN cell are both NaN here
LatestVal(df, k) == IF PivotIndex(df) = {} THEN NaN ELSE PivotCell(df, Latest(df), k)

RECURSIVE Fields(_, _)
Fields(df, ks) ==
    IF ks = << >> THEN << >>
    ELSE (IF LatestVal(df, Head(ks)) # NaN
          THEN << Upper(Head(ks)) \o "=" \o
                  Fmt1(LatestVal(df, Head(ks)).n, LatestVal(df, Head(ks)).d) >>
          ELSE << >>) \o Fields(df, Tail(ks))

\* fault: the df.empty test is missing
summary_parts_mut(df) ==
    << "Latest indicative AQI (by PM2.5): " \o indicative_aqi(LatestVal(df, "pm25")) >>
    \o Fields(df, Tracked)

\* the list `parts` of compose_context_summary; a one-element list for an empty table
summary_parts(df) ==
    IF df = EmptyDF THEN << NoData >>
    ELSE << "Latest indicative AQI (by PM2.5): " \o indicative_aqi(LatestVal(df, "pm25")) >>
         \o Fields(df, Tracked)

compose_context_summary(df) == Join(summary_parts(df), "; ")

\* ctx_summary.split(';')[0] if ctx_summary else "Unknown"; no part contains ';'
headline_of(df) == IF compose_context_summary(df) = "" THEN Unknown ELSE summary_parts(df)[1]


\* ------------------------------------------------------------------ state
VARIABLES
    GEMINI_KEY,     \* os.getenv(...) is truthy (fixed for the process)
    pc,             \* position of the script: idle, fetch, summary, chat, awaiting, show
    city, country, hours,       \* sidebar widgets of the current render
    user_msg, send,             \* chat widgets of the current render
    model,          \* None or the GenerativeModel built in this render
    df_bound, df,   \* 'df' in locals(), and the table bound by line 131
    status, charts, \* the status placeholder and the charts drawn in col1
    ctx_summary, headline,
    final_prompt,
    chat_history,   \* st.session_state.chat_history
    transcript,     \* the entries written by the "Show chat" loop
    request,        \* parameters of the GET issued in this render
    response,       \* what the measurements API answered in this render
    llm_calls,      \* number of generate_content calls made in the session
    llm_prompt,     \* the argument of the last generate_content call
    llm_outcome,    \* how the call of this render ended: none, text, notext, raise
    llm_err,        \* str(e) of the exception raised by the call
    rendered,       \* a render has completed
    log_at_start, calls_at_start,   \* chat_history and llm_calls when the render began
    pm25_arg, aqi_band,             \* argument and result of a call of indicative_aqi
    df_arg, summary                 \* argument and result of a call of compose_context_summary

sessionVars == << GEMINI_KEY, pc, city, country, hours, user_msg, send, model, df_bound, df,
                  status, charts, ctx_summary, headline, final_prompt, chat_history, transcript,
                  request, response, llm_calls, llm_prompt, llm_outcome, llm_err, rendered,
                  log_at_start, calls_at_start >>
fnVars == << pm25_arg, aqi_band, df_arg, summary >>
vars == << sessionVars, fnVars >>

None         == "None"
Gemini       == "gemini-1.5-flash"
HTTPError    == [ok |-> FALSE, table |-> EmptyDF]   \* requests.get / raise_for_status raised
Returned(t)  == [ok |-> TRUE, table |-> t]          \* fetch_openaq returned t
NoRequest    == [city |-> "", country |-> "", hours |-> 0]
NotCalled    == "not called"
NotConfigured == "Gemini is not configured. Please set GEMINI_API_KEY."

\* ----------------------------------------------------------- input domains
Cities     == {"Jaipur", "Delhi"}
Countries  == { << >>, <<"I", "N", " ">> }
Hours      == {6, 24}
Msgs       == { << >>, <<" ">>, <<" ", "h", "i">> }
ReplyTexts == { <<"o", "k", "\n">> }
Errors     == {"quota exceeded"}

Row(t, p, v) == [datetime |-> t, parameter |-> p, value |-> v]
R(t, p, v)   == Row(t, p, Num(v))

\* tables the measurements API answers with during a session
SessionTables ==
    { EmptyDF,
      << R(1, "pm25", 100) >>,
      << R(2, "pm25", 140), R(2, "pm25", 100), R(1, "no2", 200) >>,
      << R(2, "co", 3), R(1, "pm25", 400) >> }

\* tables given to the summarizer on its own: every sequence of at most MaxRows rows
\* with a numeric reading somewhere (a column of nulls only is not numeric, and the
\* aggregation of it is outside this model)
Timestamps == {1, 2}
Params     == {"pm25", "pm10", "no2", "o3", "so2", "co"}
ValuesOf(p) == CASE p = "pm25" -> {Null, Num(100), Num(140)}
                 [] p \in {"pm10", "so2"} -> {Null, Num(200)}
                 [] OTHER -> {Num(200)}
Rows   == UNION {{Row(t, p, v) : v \in ValuesOf(p)} : t \in Timestamps, p \in Params}
Tables == {s \in UNION {[1..n -> Rows] : n \in 0..MaxRows} :
              s = EmptyDF \/ \E i \in 1..Len(s) : s[i].value # Null}

PmInputs == {NaN} \cup {[n |-> k, d |-> e] : k \in (0 - PmBelow)..PmHigh, e \in 1..MaxDen}

\* ------------------------------------------------------------- the script
\* lines 46-60: the query parameters of the GET
Params_of(c, co, h) ==
    IF Strip(co) # << >>
    THEN [city |-> c, country |-> Str(Strip(co)), hours |-> h]
    ELSE [city |-> c, country |-> "absent", hours |-> h]

\* line 159: df if 'df' in locals() else pd.DataFrame()
DfOrEmpty(bound, d) == IF bound THEN d ELSE EmptyDF

system_prompt ==
    "You are an air quality assistant. Explain AQI categories, health effects, and safe actions "
    \o "in clear, concise terms. Use the provided context when relevant. If the AQI is 'Unknown', "
    \o "suggest checking more locations or time ranges. Avoid medical advice; keep it general."

\* lines 187-191
Prompt(c, context, msg) ==
    system_prompt \o "\n\n" \o "Context for city '" \o c \o "': " \o context \o "\n\n"
    \o "User: " \o msg \o "\nAssistant:"

\* fault: the text is not stripped before the test
Submitted_mut(s, msg) == s /\ msg # << >>

\* line 183: send and user_msg.strip()
Submitted(s, msg) == s /\ Strip(msg) # << >>

\* line 184: the user entry
UserEntry(msg) == << "user", Str(msg) >>

\* fault: the exception's message is left out
ModelErrorText_mut(e) == "Model error"

\* line 199
ModelErrorText(e) == "Model error: " \o e

\* before the first render: nothing is bound, the log does not exist yet (line 170
\* creates it empty)
SessionIdle ==
    /\ pc = "idle"
    /\ city = "" /\ country = << >> /\ hours = 0
    /\ user_msg = << >> /\ send = FALSE
    /\ model = None
    /\ df_bound = FALSE /\ df = EmptyDF
    /\ status = "" /\ charts = {}
    /\ ctx_summary = "" /\ headline = ""
    /\ final_prompt = ""
    /\ chat_history = << >>
    /\ transcript = << >>
    /\ request = NoRequest /\ response = HTTPError
    /\ llm_calls = 0 /\ llm_prompt = "" /\ llm_outcome = NotCalled /\ llm_err = ""
    /\ rendered = FALSE
    /\ log_at_start = << >> /\ calls_at_start = 0

Init ==
    /\ GEMINI_KEY \in BOOLEAN
    /\ SessionIdle
    /\ pm25_arg = NaN /\ aqi_band = "" /\ df_arg = EmptyDF /\ summary = ""

\* lines 14-35: a rerun starts in the namespace the previous run left (a new, empty
\* one); the widgets deliver their values, the model is built when the key is set and
\* the constructor does not raise
StartRender ==
    /\ pc = "idle"
    /\ \E c \in Cities, co \in Countries, h \in Hours, m \in Msgs, s \in BOOLEAN, init_ok \in BOOLEAN :
          /\ Submitted(s, m) => Len(chat_history) < 2 * MaxSubmits
          /\ city' = c /\ country' = co /\ hours' = h
          /\ user_msg' = m /\ send' = s
          /\ model' = IF GEMINI_KEY /\ init_ok THEN Gemini ELSE None
    /\ log_at_start' = chat_history /\ calls_at_start' = llm_calls
    /\ pc' = "fetch"
    /\ UNCHANGED << GEMINI_KEY, df_bound, df, status, charts, ctx_summary, headline,
                    final_prompt, chat_history, transcript, request, response, llm_calls,
                    llm_prompt, llm_outcome, llm_err, rendered, fnVars >>

\* fault: no try/except around the fetch, the exception ends the run
FetchFails_mut ==
    /\ pc = "fetch"
    /\ request' = Params_of(city, country, hours)
    /\ response' = HTTPError
    /\ rendered' = TRUE
    /\ pc' = "idle"
    /\ UNCHANGED << GEMINI_KEY, city, country, hours, user_msg, send, model, df_bound, df,
                    status, charts, ctx_summary, headline, final_prompt, chat_history,
                    transcript, llm_calls, llm_prompt, llm_outcome, llm_err, log_at_start,
                    calls_at_start, fnVars >>

\* lines 129-131, 154-155: requests.get or raise_for_status raises; df stays unbound
FetchFails ==
    /\ pc = "fetch"
    /\ request' = Params_of(city, country, hours)
    /\ response' = HTTPError
    /\ status' = "error"
    /\ pc' = "summary"
    /\ UNCHANGED << GEMINI_KEY, city, country, hours, user_msg, send, model, df_bound, df, charts,
                    ctx_summary, headline, final_prompt, chat_history, transcript, llm_calls,
                    llm_prompt, llm_outcome, llm_err, rendered, log_at_start, calls_at_start,
                    fnVars >>

\* lines 131-153: the fetch returns a table; a warning for an empty one, charts otherwise
FetchReturns ==
    /\ pc = "fetch"
    /\ request' = Params_of(city, country, hours)
    /\ \E t \in SessionTables :
          /\ response' = Returned(t)
          /\ df_bound' = TRUE /\ df' = t
          /\ status' = IF t = EmptyDF THEN "warning" ELSE "success"
          /\ charts' = IF t = EmptyDF THEN {}
                       ELSE {"bar"} \cup
                            (IF \E i \in 1..Len(t) : t[i].parameter \in {"pm25", "pm10"}
                             THEN {"line"} ELSE {})
    /\ pc' = "summary"
    /\ UNCHANGED << GEMINI_KEY, city, country, hours, user_msg, send, model,
                    ctx_summary, headline, final_prompt, chat_history, transcript, llm_calls,
                    llm_prompt, llm_outcome, llm_err, rendered, log_at_start, calls_at_start,
                    fnVars >>

\* lines 157-160: the summary and the headline metric
Summarize ==
    /\ pc = "summary"
    /\ ctx_summary' = compose_context_summary(DfOrEmpty(df_bound, df))
    /\ headline' = headline_of(DfOrEmpty(df_bound, df))
    /\ pc' = "chat"
    /\ UNCHANGED << GEMINI_KEY, city, country, hours, user_msg, send, model, df_bound, df, status, charts,
                    final_prompt, chat_history, transcript, request, response, llm_calls,
                    llm_prompt, llm_outcome, llm_err, rendered, log_at_start, calls_at_start,
                    fnVars >>

\* fault: the log is assigned, not appended to
Submit_mut ==
    /\ pc = "chat"
    /\ Submitted(send, user_msg)
    /\ chat_history' = << UserEntry(user_msg) >>
    /\ final_prompt' = Prompt(city, ctx_summary, Str(user_msg))
    /\ pc' = "awaiting"
    /\ UNCHANGED << GEMINI_KEY, city, country, hours, user_msg, send, model, df_bound, df,
                    status, charts, ctx_summary, headline, transcript, request, response,
                    llm_calls, llm_prompt, llm_outcome, llm_err, rendered, log_at_start,
                    calls_at_start, fnVars >>

\* lines 183-191: the user entry is appended and the prompt composed
Submit ==
    /\ pc = "chat"
    /\ Submitted(send, user_msg)
    /\ chat_history' = Append(chat_history, UserEntry(user_msg))
    /\ final_prompt' = Prompt(city, ctx_summary, Str(user_msg))
    /\ pc' = "awaiting"
    /\ UNCHANGED << GEMINI_KEY, city, country, hours, user_msg, send, model, df_bound, df, status, charts,
                    ctx_summary, headline, transcript, request, response, llm_calls,
                    llm_prompt, llm_outcome, llm_err, rendered, log_at_start, calls_at_start,
                    fnVars >>

\* line 183 is false: nothing is appended
NoSubmit ==
    /\ pc = "chat"
    /\ ~Submitted(send, user_msg)
    /\ pc' = "show"
    /\ UNCHANGED << GEMINI_KEY, city, country, hours, user_msg, send, model, df_bound, df, status, charts,
                    ctx_summary, headline, final_prompt, chat_history, transcript, request,
                    response, llm_calls, llm_prompt, llm_outcome, llm_err, rendered,
                    log_at_start, calls_at_start, fnVars >>

\* fault: `if model` is missing, generate_content is looked up on None
ReplyNotConfigured_mut ==
    /\ pc = "awaiting"
    /\ model = None
    /\ chat_history' = Append(chat_history,
          << "assistant",
             ModelErrorText("'NoneType' object has no attribute 'generate_content'") >>)
    /\ pc' = "show"
    /\ UNCHANGED << GEMINI_KEY, city, country, hours, user_msg, send, model, df_bound, df, status, charts,
                    ctx_summary, headline, final_prompt, transcript, request, response,
                    llm_calls, llm_prompt, llm_outcome, llm_err, rendered, log_at_start,
                    calls_at_start, fnVars >>

\* lines 196-197, 200: no model, the fixed answer
ReplyNotConfigured ==
    /\ pc = "awaiting"
    /\ model = None
    /\ chat_history' = Append(chat_history, << "assistant", NotConfigured >>)
    /\ pc' = "show"
    /\ UNCHANGED << GEMINI_KEY, city, country, hours, user_msg, send, model, df_bound, df, status, charts,
                    ctx_summary, headline, final_prompt, transcript, request, response,
                    llm_calls, llm_prompt, llm_outcome, llm_err, rendered, log_at_start,
                    calls_at_start, fnVars >>

\* lines 193-195, 200: generate_content returns; the answer is the stripped text, or
\* "No response." when the response has no text attribute
ReplyModel ==
    /\ pc = "awaiting"
    /\ model # None
    /\ llm_calls' = llm_calls + 1
    /\ llm_prompt' = final_prompt
    /\ \/ \E t \in ReplyTexts :
             /\ llm_outcome' = "text"
             /\ chat_history' = Append(chat_history, << "assistant", Str(Strip(t)) >>)
       \/ /\ llm_outcome' = "notext"
          /\ chat_history' = Append(chat_history, << "assistant", "No response." >>)
    /\ pc' = "show"
    /\ UNCHANGED << GEMINI_KEY, city, country, hours, user_msg, send, model, df_bound, df, status, charts,
                    ctx_summary, headline, final_prompt, transcript, request, response,
                    llm_err, rendered, log_at_start, calls_at_start, fnVars >>

\* fault: the exception is swallowed and no answer is appended
ReplyModelError_mut ==
    /\ pc = "awaiting"
    /\ model # None
    /\ llm_calls' = llm_calls + 1
    /\ llm_prompt' = final_prompt
    /\ \E e \in Errors : llm_outcome' = "raise" /\ llm_err' = e
    /\ pc' = "show"
    /\ UNCHANGED << GEMINI_KEY, city, country, hours, user_msg, send, model, df_bound, df,
                    status, charts, ctx_summary, headline, final_prompt, chat_history,
                    transcript, request, response, rendered, log_at_start, calls_at_start,
                    fnVars >>

\* lines 194, 198-200: generate_content (or resp.text) raises
ReplyModelError ==
    /\ pc = "awaiting"
    /\ model # None
    /\ llm_calls' = llm_calls + 1
    /\ llm_prompt' = final_prompt
    /\ \E e \in Errors :
          /\ llm_outcome' = "raise"
          /\ llm_err' = e
          /\ chat_history' = Append(chat_history, << "assistant", ModelErrorText(e) >>)
    /\ pc' = "show"
    /\ UNCHANGED << GEMINI_KEY, city, country, hours, user_msg, send, model, df_bound, df, status, charts,
                    ctx_summary, headline, final_prompt, transcript, request, response,
                    rendered, log_at_start, calls_at_start, fnVars >>

\* fault: the names of the run survive it (the script is run in one long-lived namespace)
ShowChat_mut ==
    /\ pc = "show"
    /\ transcript' = chat_history
    /\ rendered' = TRUE
    /\ pc' = "idle"
    /\ city' = "" /\ country' = << >> /\ hours' = 0
    /\ user_msg' = << >> /\ send' = FALSE
    /\ model' = None
    /\ status' = "" /\ charts' = {}
    /\ ctx_summary' = "" /\ headline' = "" /\ final_prompt' = ""
    /\ request' = NoRequest /\ response' = HTTPError
    /\ llm_prompt' = "" /\ llm_outcome' = NotCalled /\ llm_err' = ""
    /\ log_at_start' = chat_history /\ calls_at_start' = llm_calls
    /\ UNCHANGED << GEMINI_KEY, df_bound, df, chat_history, llm_calls, fnVars >>

\* lines 203-211: the transcript is written in full, in order; the script ends and its
\* namespace is discarded with it (the next run executes in a new module namespace);
\* only st.session_state and the process environment remain
ShowChat ==
    /\ pc = "show"
    /\ transcript' = chat_history
    /\ rendered' = TRUE
    /\ pc' = "idle"
    /\ city' = "" /\ country' = << >> /\ hours' = 0
    /\ user_msg' = << >> /\ send' = FALSE
    /\ model' = None
    /\ df_bound' = FALSE /\ df' = EmptyDF
    /\ status' = "" /\ charts' = {}
    /\ ctx_summary' = "" /\ headline' = "" /\ final_prompt' = ""
    /\ request' = NoRequest /\ response' = HTTPError
    /\ llm_prompt' = "" /\ llm_outcome' = NotCalled /\ llm_err' = ""
    /\ log_at_start' = chat_history /\ calls_at_start' = llm_calls
    /\ UNCHANGED << GEMINI_KEY, chat_history, llm_calls, fnVars >>

Next ==
    \/ StartRender
    \/ FetchFails
    \/ FetchReturns
    \/ Summarize
    \/ Submit
    \/ NoSubmit
    \/ ReplyNotConfigured
    \/ ReplyModel
    \/ ReplyModelError
    \/ ShowChat

Spec == Init /\ [][Next]_vars

\* ------------------------------------------- the bander called on its own
AqiInit ==
    /\ GEMINI_KEY = FALSE
    /\ SessionIdle
    /\ pm25_arg \in PmInputs /\ aqi_band = "" /\ df_arg = EmptyDF /\ summary = ""

CallAqi ==
    /\ aqi_band = ""
    /\ aqi_band' = indicative_aqi(pm25_arg)
    /\ UNCHANGED << sessionVars, pm25_arg, df_arg, summary >>

SpecAqi == AqiInit /\ [][CallAqi]_vars

\* --------------------------------------- the summarizer called on its own
SummaryInit ==
    /\ GEMINI_KEY = FALSE
    /\ SessionIdle
    /\ pm25_arg = NaN /\ aqi_band = "" /\ df_arg \in Tables /\ summary = ""

CallSummary ==
    /\ summary = ""
    /\ summary' = compose_context_summary(df_arg)
    /\ UNCHANGED << sessionVars, pm25_arg, aqi_band, df_arg >>

SpecSummary == SummaryInit /\ [][CallSummary]_vars

\* ================================================================ properties
IsPrefix(a, b) == Len(a) <= Len(b) /\ SubSeq(b, 1, Len(a)) = a

AfterFetch   == pc \in {"summary", "chat", "awaiting", "show"}
AfterSummary == pc \in {"chat", "awaiting", "show"}
AtEnd        == pc = "show"       \* the whole script has run, nothing is discarded yet

\* C1: indicative_aqi maps a PM2.5 value v to exactly one band, upper bounds inclusive:
\* v<=12 Good, 12<v<=35.4 Moderate, 35.4<v<=55.4 Unhealthy for Sensitive Groups,
\* 55.4<v<=150.4 Unhealthy, 150.4<v<=250.4 Very Unhealthy, v>250.4 Hazardous, NaN Unknown;
\* zero and negative v are Good.
C1_BandLadder ==
    aqi_band # "" =>
        LET n == pm25_arg.n
            d == pm25_arg.d
        IN  IF d = 0 THEN aqi_band = Unknown
            ELSE /\ (aqi_band = Good)          <=> (n <= 120 * d)
                 /\ (aqi_band = Moderate)      <=> (120 * d < n /\ n <= 354 * d)
                 /\ (aqi_band = USG)           <=> (354 * d < n /\ n <= 554 * d)
                 /\ (aqi_band = Unhealthy)     <=> (554 * d < n /\ n <= 1504 * d)
                 /\ (aqi_band = VeryUnhealthy) <=> (1504 * d < n /\ n <= 2504 * d)
                 /\ (aqi_band = Hazardous)     <=> (2504 * d < n)
                 /\ aqi_band # Unknown

\* v = 12 has been banded Good
C1_Witness == pm25_arg = [n |-> 120, d |-> 1] /\ aqi_band = Good

\* ---- C6
HasValue(tbl, t, k) ==
    \E i \in 1..Len(tbl) : tbl[i].datetime = t /\ tbl[i].parameter = k /\ tbl[i].value # Null
AllTimes(tbl)    == {tbl[i].datetime : i \in 1..Len(tbl)}
ValuedTimes(tbl) == {t \in AllTimes(tbl) : \E k \in Params : HasValue(tbl, t, k)}
MaxOf(S)         == CHOOSE t \in S : \A u \in S : u <= t
MeanAt(tbl, t, k) == [n |-> GroupSum(tbl, t, k), d |-> GroupCount(tbl, t, k)]

\* the summary the claim describes when the row of timestamp t is the one summarized
SummaryAt(tbl, t) ==
    LET present == SelectSeq(Tracked, LAMBDA k : HasValue(tbl, t, k))
        band    == IF HasValue(tbl, t, "pm25")
                   THEN indicative_aqi(MeanAt(tbl, t, "pm25")) ELSE Unknown
        field(k) == Upper(k) \o "=" \o Fmt1(MeanAt(tbl, t, k).n, MeanAt(tbl, t, k).d)
    IN  Join(<< "Latest indicative AQI (by PM2.5): " \o band >>
             \o [i \in 1..Len(present) |-> field(present[i])], "; ")

FetchFailed == request # NoRequest /\ ~response.ok

\* C2 as stated: a submission with non-empty text adds exactly two entries to the log.
C2_NonEmptyTextAddsTwo ==
    (AtEnd /\ send /\ user_msg # << >>) => Len(chat_history) = Len(log_at_start) + 2

\* C2 amended: the log is append-only and order-preserving, and a submission whose text
\* is non-empty after stripping adds exactly two entries, the user entry carrying the
\* text and then one assistant entry, whatever the outcome.
C2_AppendOnly ==
    /\ IsPrefix(transcript, log_at_start)
    /\ IsPrefix(log_at_start, chat_history)
    /\ (AtEnd /\ send /\ Strip(user_msg) # << >>) =>
          /\ Len(chat_history) = Len(log_at_start) + 2
          /\ chat_history[Len(log_at_start) + 1] = << "user", Str(user_msg) >>
          /\ chat_history[Len(log_at_start) + 2][1] = "assistant"

\* a second submission has completed, after a failed model call, on top of a first one
C2_Witness ==
    /\ AtEnd /\ send /\ Strip(user_msg) # << >>
    /\ llm_outcome = "raise"
    /\ Len(log_at_start) = 2 /\ Len(chat_history) = 4

C4_FetchErrorContained ==
    FetchFailed =>
        /\ AfterFetch
        /\ status = "error" /\ charts = {} /\ ~df_bound
        /\ AfterSummary => (ctx_summary = NoData /\ headline = NoData)
        /\ (AtEnd /\ send /\ Strip(user_msg) # << >>) =>
              /\ Len(chat_history) = Len(log_at_start) + 2
              /\ transcript # chat_history

\* a submission processed in a render whose fetch failed
C4_Witness ==
    /\ FetchFailed /\ AtEnd /\ send /\ Strip(user_msg) # << >>
    /\ Len(chat_history) = Len(log_at_start) + 2

\* C5: when the model call raises, the assistant entry of that submission is
\* "Model error: " followed by the exception's message; the session goes on, and the
\* entry is still in place after later submissions.
C5_ModelErrorAnswered ==
    /\ (AtEnd /\ llm_outcome = "raise") =>
          /\ model # None
          /\ chat_history = log_at_start \o
                << << "user", Str(user_msg) >>, << "assistant", "Model error: " \o llm_err >> >>
    /\ \A i \in 1..Len(chat_history) :
          chat_history[i] \in
              {<< "user", Str(m) >> : m \in Msgs} \cup
              {<< "assistant", "Model error: " \o e >> : e \in Errors} \cup
              {<< "assistant", a >> : a \in {NotConfigured, "No response."}} \cup
              {<< "assistant", Str(Strip(t)) >> : t \in ReplyTexts}

\* a failed call answered first, a successful one afterwards
C5_Witness ==
    /\ AtEnd /\ Len(chat_history) = 4
    /\ chat_history[2] = << "assistant", "Model error: quota exceeded" >>
    /\ chat_history[4] = << "assistant", "ok" >>

\* C7: with an empty table the summary is exactly the no-data sentence, with no band in
\* it, and the headline shows that sentence.
C7_EmptyTable ==
    (AfterSummary /\ response = Returned(EmptyDF)) =>
        /\ ctx_summary = "No recent measurements found."
        /\ headline = "No recent measurements found."

\* the headline of a render whose fetch returned an empty table
C7_Witness ==
    /\ pc = "chat" /\ response = Returned(EmptyDF) /\ status = "warning"
    /\ headline = NoData

\* C8: summary, headline and prompt of a render come from the table fetched in that
\* render with the sidebar inputs of that render, never from an earlier one.
C8_SummaryOfThisRender ==
    /\ AfterFetch =>
          /\ request.city = city /\ request.hours = hours
          /\ request.country = IF Strip(country) = << >> THEN "absent" ELSE Str(Strip(country))
    /\ AfterSummary =>
          /\ ctx_summary =
                compose_context_summary(IF response.ok THEN response.table ELSE EmptyDF)
          /\ headline = summary_parts(IF response.ok THEN response.table ELSE EmptyDF)[1]
    /\ (pc \in {"awaiting", "show"} /\ send /\ Strip(user_msg) # << >>) =>
          final_prompt = Prompt(city, ctx_summary, Str(user_msg))
    /\ llm_outcome # NotCalled => llm_prompt = final_prompt

\* a submission in a later render, for another city, whose fetch failed
C8_Witness ==
    /\ AtEnd /\ rendered /\ FetchFailed /\ city = "Delhi"
    /\ llm_outcome = "text"
    /\ llm_prompt = Prompt("Delhi", NoData, " hi")

\* C9: without Send, or with a text that is empty after stripping, the render leaves the
\* log as it was and calls no model; otherwise the user entry holds the text as typed.
C9_OnlySendWithText ==
    /\ (pc # "idle" /\ (~send \/ Strip(user_msg) = << >>)) =>
          /\ chat_history = log_at_start
          /\ llm_calls = calls_at_start
          /\ llm_outcome = NotCalled
    /\ pc = "awaiting" => (send /\ Strip(user_msg) # << >>)
    /\ (pc \in {"awaiting", "show"} /\ send /\ Strip(user_msg) # << >>) =>
          chat_history[Len(log_at_start) + 1] = << "user", Str(user_msg) >>

\* Send pressed with a blank text: the render has ended and the log is as before
C9_Witness ==
    /\ AtEnd /\ send /\ user_msg = << " " >>
    /\ Len(chat_history) = 2 /\ chat_history = log_at_start

\* C10: between renders the log has even length and alternates user, assistant.
C10_Alternation ==
    pc \in {"idle", "show"} =>
        /\ Len(chat_history) % 2 = 0
        /\ \A i \in 1..Len(chat_history) :
              chat_history[i][1] = IF i % 2 = 1 THEN "user" ELSE "assistant"

\* idle again after two submissions
C10_Witness == pc = "idle" /\ rendered /\ Len(chat_history) = 4

====
